---- MODULE Spec2Model ----
(***************************************************************************)
(* Model of the contract-family clustering engine of contract_analysis.py: *)
(* ContractFamily, ContractAnalysis (handle_event, check_save_state,       *)
(* save_state, load_state, export_data) and the ingestion loop main().     *)
(* One action is one complete handler run; the process is single-threaded. *)
(***************************************************************************)
EXTENDS Integers, Sequences, FiniteSets, TLC

(* ---------------------------------------------------------------------- *)
(* Bounds of the model                                                     *)
(* ---------------------------------------------------------------------- *)
MaxEvents == 3          \* messages popped from the queue over the whole run
MaxTime == 600          \* the wall clock stops advancing here

(* ---------------------------------------------------------------------- *)
(* Program constants                                                       *)
(* ---------------------------------------------------------------------- *)
ETH == "0x4200000000000000000000000000000000000006"
save_interval == 300
threshold == 100

(* ---------------------------------------------------------------------- *)
(* Input domains                                                           *)
(* ---------------------------------------------------------------------- *)
None == "None"
TickStep == save_interval
Tokens == {ETH, "0xA1", "0xA2", "0xA3", "0xA4"}
Codes == {"foo", "bar", "baz"}
Scores == {40, 100}
\* queue messages: the reference token on either side, on both, or on neither
Events == {e \in [token0 : Tokens, token1 : Tokens] :
             \/ e.token0 = ETH
             \/ e.token1 = ETH
             \/ (e.token0 = "0xA1" /\ e.token1 = "0xA2")}
SaveOutcomes == {"ok", "open_error", "write_error"}
ExportOutcomes == {"ok", "write_error"}

VARIABLES
    families,        \* ContractAnalysis.families: list of ContractFamily
    family_map,      \* ContractAnalysis.family_map: id -> position of the family object
    graph,           \* ContractAnalysis.graph: id -> (id -> score)
    last_save_time,  \* ContractAnalysis.last_save_time
    now,             \* time.time()
    state_file,      \* data/contract_analysis_state.pkl
    export_file,     \* data/contract_families.json
    pc,              \* "stopped" | "running": the process of main()
    nextId,          \* uuid.uuid4(): every call returns an id never returned before
    oracle,          \* copydetect's score for each pair of non-empty codes
    contract,        \* the Contract built by the last handle_event that reached step 3
    log,             \* what the last step did and printed
    events,          \* number of messages popped so far
    hpc,             \* where the process stands in main()'s loop and in handle_event
    loc,             \* the local variables of the handle_event call in progress
    reader,          \* what the dashboard's last _load_json_data found
    queue,           \* the Redis list "NewToken", head first
    delivered,       \* ids of the messages handed to handle_event, in order
    scan,            \* the ChainScanner call in progress and its retry loop
    listener,        \* EventListener.log_loop: the chain, last_processed_block, pushes
    twin,            \* a second ContractAnalysis fed the same contracts: families, graph, ids
    flow             \* HoneypotTimerFlowBaseUniswapV2: buy_amount and the buys requested

vars == <<families, family_map, graph, last_save_time, now, state_file,
          export_file, pc, nextId, oracle, contract, log, events,
          hpc, loc, reader, queue, delivered, scan, listener, twin, flow>>

\* the scanner client, the listener process, the second engine and the trading flow,
\* which the engine's actions do not touch
ext == <<scan, listener, twin, flow>>

\* the variables the one-step-per-handler actions leave as they are
aux == <<hpc, loc, reader, queue, delivered, scan, listener, twin, flow>>

(* ---------------------------------------------------------------------- *)
(* Contract and ContractFamily                                             *)
(* ---------------------------------------------------------------------- *)
Contract(address, code, name) ==
    [address |-> address, code |-> code, name |-> name]

NoContract == Contract(None, "", None)

\* ContractFamily.__init__ with a slip: every family gets the same id
ContractFamily_same_id(id, c) ==
    [id |-> 1, code |-> c.code, count |-> 1,
     addresses |-> <<c.address>>, names |-> {c.name}]

\* ContractFamily.__init__
ContractFamily(id, c) ==
    [id |-> id, code |-> c.code, count |-> 1,
     addresses |-> <<c.address>>, names |-> {c.name}]

\* add_contract variants with a slip, used to test the properties below
add_contract_drift(f, c) ==
    [f EXCEPT !.code = c.code,
              !.count = @ + 1,
              !.addresses = Append(@, c.address),
              !.names = @ \cup {c.name}]

add_contract_decrement(f, c) ==
    [f EXCEPT !.count = @ - 1,
              !.addresses = Append(@, c.address),
              !.names = @ \cup {c.name}]

add_contract_no_count(f, c) ==
    [f EXCEPT !.addresses = Append(@, c.address),
              !.names = @ \cup {c.name}]

add_contract_no_name(f, c) ==
    [f EXCEPT !.count = @ + 1,
              !.addresses = Append(@, c.address)]

\* ContractFamily.add_contract
add_contract(f, c) ==
    [f EXCEPT !.count = @ + 1,
              !.addresses = Append(@, c.address),
              !.names = @ \cup {c.name}]

\* ContractFamily.code_similarity: 0 for an empty snippet, else copydetect's score
code_similarity(code1, code2) ==
    IF code1 = "" \/ code2 = "" THEN 0 ELSE oracle[<<code1, code2>>]

\* is_similar with the strict comparison of the earlier version
is_similar_strict(f, c) ==
    LET similarity == code_similarity(f.code, c.code)
    IN  <<similarity, similarity > threshold>>

\* is_similar with a slip: no score is ever taken for a match
is_similar_never(f, c) ==
    LET similarity == code_similarity(f.code, c.code)
    IN  <<similarity, FALSE>>

\* ContractFamily.is_similar: <<similarity, conclusion>>
is_similar(f, c) ==
    LET similarity == code_similarity(f.code, c.code)
    IN  <<similarity, similarity >= threshold>>

(* ---------------------------------------------------------------------- *)
(* The similarity graph (defaultdict of defaultdict)                       *)
(* ---------------------------------------------------------------------- *)
EmptyDict == [k \in {} |-> 0]

\* graph[a][b] = s
SetItem2(g, a, b, s) ==
    LET inner == IF a \in DOMAIN g THEN g[a] ELSE EmptyDict
        inner2 == [k \in DOMAIN inner \cup {b} |-> IF k = b THEN s ELSE inner[k]]
    IN  [k \in DOMAIN g \cup {a} |-> IF k = a THEN inner2 ELSE g[k]]

\* update_graph variants with a slip: one direction only; the last observation only
RECURSIVE update_graph_one_way(_, _, _, _)
update_graph_one_way(g, fid, observations, i) ==
    IF i > Len(observations) THEN g
    ELSE update_graph_one_way(SetItem2(g, fid, observations[i][1], observations[i][2]),
                              fid, observations, i + 1)

update_graph_last_only(g, fid, observations, i) ==
    IF Len(observations) = 0 THEN g
    ELSE LET o == observations[Len(observations)]
         IN  SetItem2(SetItem2(g, fid, o[1], o[2]), o[1], fid, o[2])

\* update_graph with a slip: the graph is started afresh for the new family
update_graph_clear(g, fid, observations, i) ==
    update_graph_last_only(EmptyDict, fid, observations, i)

\* update_graph with a slip: only the first observation is written
update_graph_first_only(g, fid, observations, i) ==
    IF Len(observations) = 0 THEN g
    ELSE LET o == observations[1]
         IN  SetItem2(SetItem2(g, fid, o[1], o[2]), o[1], fid, o[2])

\* update_graph with a slip: the new family is also linked to itself
RECURSIVE update_graph_self(_, _, _, _)
update_graph_self(g, fid, observations, i) ==
    IF i > Len(observations) THEN SetItem2(g, fid, fid, threshold)
    ELSE LET o == observations[i]
         IN  update_graph_self(SetItem2(SetItem2(g, fid, o[1], o[2]), o[1], fid, o[2]),
                               fid, observations, i + 1)

\* handle_event, the loop over observations.items()
RECURSIVE update_graph(_, _, _, _)
update_graph(g, fid, observations, i) ==
    IF i > Len(observations) THEN g
    ELSE LET other_id == observations[i][1]
             similarity == observations[i][2]
             g1 == SetItem2(g, fid, other_id, similarity)
             g2 == SetItem2(g1, other_id, fid, similarity)
         IN  update_graph(g2, fid, observations, i + 1)

\* compare with a slip: the loop does not stop at the first match, the last match wins
RECURSIVE compare_last(_, _, _, _)
compare_last(fams, c, i, observations) ==
    IF i > Len(fams) THEN [matched |-> 0, observations |-> observations]
    ELSE LET r == is_similar(fams[i], c)
             rest == compare_last(fams, c, i + 1,
                                  IF r[2] THEN observations
                                  ELSE Append(observations, <<fams[i].id, r[1]>>))
         IN  IF r[2] /\ rest.matched = 0
             THEN [matched |-> i, observations |-> observations]
             ELSE rest

\* the loop over self.families with a slip: the families are visited in the order of
\* their ids (as a dict or set keyed by id would give them), the first match wins
compare_by_id(fams, c, i, observations) ==
    LET m == {k \in 1..Len(fams) : is_similar(fams[k], c)[2]}
    IN  IF m = {}
        THEN [matched |-> 0,
              observations |-> [k \in 1..Len(fams) |->
                                  <<fams[k].id, is_similar(fams[k], c)[1]>>]]
        ELSE [matched |-> CHOOSE k \in m : \A j \in m : fams[k].id <= fams[j].id,
              observations |-> <<>>]

\* handle_event, the loop over self.families: the position of the family that
\* matched (0 when none did) and the observations collected before it
RECURSIVE compare(_, _, _, _)
compare(fams, c, i, observations) ==
    IF i > Len(fams) THEN [matched |-> 0, observations |-> observations]
    ELSE LET r == is_similar(fams[i], c)
         IN  IF r[2] THEN [matched |-> i, observations |-> observations]
             ELSE compare(fams, c, i + 1, Append(observations, <<fams[i].id, r[1]>>))

\* {family.id: family for family in self.families}; a later family wins a shared id
build_family_map(fams) ==
    LET ids == {fams[i].id : i \in 1..Len(fams)}
    IN  [id \in ids |-> CHOOSE i \in 1..Len(fams) :
                           /\ fams[i].id = id
                           /\ \A j \in 1..Len(fams) : fams[j].id = id => j <= i]

(* ---------------------------------------------------------------------- *)
(* Files                                                                   *)
(* ---------------------------------------------------------------------- *)
\* kind: "none" (no file), "ok" (a complete dump), "partial" (truncated or cut short)
NoFile == [kind |-> "none", families |-> <<>>, family_map |-> EmptyDict,
           graph |-> EmptyDict]
PartialFile == [NoFile EXCEPT !.kind = "partial"]

NoExport == [kind |-> "none", families |-> <<>>, graph |-> EmptyDict,
             total_families |-> 0, total_contracts |-> 0]
PartialExport == [NoExport EXCEPT !.kind = "partial"]

\* save_state, graph_dict: the defaultdicts turned into plain dicts
graph_to_dict(g) == [family_id \in DOMAIN g |-> [o \in DOMAIN g[family_id] |-> g[family_id][o]]]

\* pickle_state with a slip: the graph is left out of the dump
pickle_state_no_graph(fams, g) ==
    [kind |-> "ok", families |-> fams, family_map |-> build_family_map(fams),
     graph |-> EmptyDict]

\* save_state: the object handed to pickle.dump (its 'timestamp' string is only
\* printed by load_state and is left out)
pickle_state(fams, g) ==
    [kind |-> "ok", families |-> fams, family_map |-> build_family_map(fams),
     graph |-> graph_to_dict(g)]

\* save_state: the engine's family_map and the file after the call
save_state(fams, g, file, outcome) ==
    [family_map |-> build_family_map(fams),
     file |-> CASE outcome = "ok" -> pickle_state(fams, g)
                [] outcome = "open_error" -> file
                [] OTHER -> PartialFile,
     printed |-> outcome]

\* check_save_state: family_map, file and last_save_time after the call
check_save_state(fams, fmap, g, lst, t, file, outcome) ==
    IF t - lst > save_interval
    THEN LET s == save_state(fams, g, file, outcome)
         IN  [family_map |-> s.family_map, file |-> s.file,
              last_save_time |-> t, printed |-> s.printed]
    ELSE [family_map |-> fmap, file |-> file, last_save_time |-> lst, printed |-> "none"]

\* load_graph with a slip: it returns after the first entry
load_graph_first(g, graph_dict, todo) ==
    IF todo = {} THEN g
    ELSE LET p == CHOOSE q \in todo : TRUE
         IN  SetItem2(g, p[1], p[2], graph_dict[p[1]][p[2]])

\* load_state, the two nested loops that copy graph_dict into self.graph
RECURSIVE load_graph(_, _, _)
load_graph(g, graph_dict, todo) ==
    IF todo = {} THEN g
    ELSE LET p == CHOOSE q \in todo : TRUE
         IN  load_graph(SetItem2(g, p[1], p[2], graph_dict[p[1]][p[2]]), graph_dict, todo \ {p})

GraphItems(gd) == {<<a, b>> \in (DOMAIN gd) \X (UNION {DOMAIN gd[k] : k \in DOMAIN gd}) :
                      b \in DOMAIN gd[a]}

\* load_state with a slip: it reports success whatever it found
load_state_always(fams, fmap, g, file) ==
    [families |-> file.families, family_map |-> build_family_map(file.families),
     graph |-> file.graph, result |-> TRUE]

\* load_state on an engine whose fields are fams, fmap, g
load_state(fams, fmap, g, file) ==
    IF file.kind = "ok"
    THEN [families |-> file.families,
          family_map |-> IF DOMAIN file.family_map = {} THEN build_family_map(file.families)
                         ELSE file.family_map,
          graph |-> load_graph(g, file.graph, GraphItems(file.graph)),
          result |-> TRUE]
    ELSE IF file.kind = "malformed"
    THEN \* pickle.load succeeded and lines 231-236 assigned; the graph loop raised
         [families |-> file.families,
          family_map |-> IF DOMAIN file.family_map = {} THEN build_family_map(file.families)
                         ELSE file.family_map,
          graph |-> g,
          result |-> FALSE]
    ELSE [families |-> fams, family_map |-> fmap, graph |-> g, result |-> FALSE]

RECURSIVE SumCounts(_, _)
SumCounts(fams, i) == IF i > Len(fams) THEN 0 ELSE fams[i].count + SumCounts(fams, i + 1)

\* list(self.names): the elements of the set, each once, in the set's own order
RECURSIVE SetToSeq(_)
SetToSeq(S) ==
    IF S = {} THEN <<>>
    ELSE LET x == CHOOSE y \in S : TRUE
         IN  <<x>> \o SetToSeq(S \ {x})

\* ContractFamily.to_dict
to_dict(f) ==
    [id |-> f.id, code |-> f.code, count |-> f.count, addresses |-> f.addresses,
     names |-> SetToSeq(f.names)]

\* ContractFamily.from_dict
from_dict(data) ==
    [id |-> data.id, code |-> data.code, count |-> data.count,
     addresses |-> data.addresses,
     names |-> {data.names[i] : i \in 1..Len(data.names)}]

\* export_data with a slip: the contracts' total counts the families
export_data_count_families(fams, g, file, outcome) ==
    IF outcome = "ok"
    THEN [kind |-> "ok", families |-> [i \in 1..Len(fams) |-> to_dict(fams[i])],
          graph |-> graph_to_dict(g),
          total_families |-> Len(fams), total_contracts |-> Len(fams)]
    ELSE PartialExport

\* export_data: the file after the call (without its 'timestamp' string)
export_data(fams, g, file, outcome) ==
    IF outcome = "ok"
    THEN [kind |-> "ok", families |-> [i \in 1..Len(fams) |-> to_dict(fams[i])],
          graph |-> graph_to_dict(g),
          total_families |-> Len(fams), total_contracts |-> SumCounts(fams, 1)]
    ELSE PartialExport

(* ---------------------------------------------------------------------- *)
(* ContractAnalysis                                                        *)
(* ---------------------------------------------------------------------- *)
\* find_weth_token
find_weth_token(event_data) ==
    LET address_0 == event_data.token0
        address_1 == event_data.token1
    IN  IF address_0 = ETH THEN address_1
        ELSE IF address_1 = ETH THEN address_0
        ELSE None

\* scanner.get_contract_source_code_and_name: the block explorer's verified source
\* and name of each address (0xA4 is not verified and has neither)
chain == [a \in Tokens |->
            CASE a = "0xA1" -> [code |-> "foo", name |-> "Tok"]
              [] a = "0xA2" -> [code |-> "foo", name |-> "Coin"]
              [] a = "0xA3" -> [code |-> "bar", name |-> "Tok"]
              [] a = "0xA4" -> [code |-> "", name |-> ""]
              [] OTHER -> [code |-> "baz", name |-> "WETH9"]]

\* the empty-code test with a slip: it looks for None instead of an empty string
has_no_code_none(code) == code = None

\* handle_event: len(code) == 0
has_no_code(code) == Len(code) = 0

\* no message, no handler locals
NoEvent == [token0 |-> None, token1 |-> None]
NoLocals == [msg |-> 0, event |-> NoEvent, address |-> None, i |-> 0,
             observations |-> <<>>, fid |-> 0, k |-> 0, save |-> "none"]

Log(op, save, export, loaded) == [op |-> op, save |-> save, export |-> export, loaded |-> loaded]

\* the process dies: the engine object is gone
ProcessExit ==
    /\ pc' = "stopped"
    /\ families' = <<>>
    /\ family_map' = EmptyDict
    /\ graph' = EmptyDict
    /\ last_save_time' = 0
    /\ contract' = NoContract

\* main(): r.brpop returns a message and handle_event(event_data) runs to its end
handle_event ==
    /\ pc = "running"
    /\ events < MaxEvents
    /\ events' = events + 1
    /\ UNCHANGED <<now, oracle>>
    /\ UNCHANGED aux
    /\ \E event \in Events :
         LET address == find_weth_token(event) IN
         IF address = None
         THEN /\ log' = Log("no_weth", "none", "none", FALSE)
              /\ UNCHANGED <<families, family_map, graph, last_save_time, state_file,
                             export_file, pc, nextId, contract>>
         ELSE
           \* scanner.get_contract_source_code_and_name raises, nothing catches it
           \/ /\ log' = Log("scanner_error", "none", "none", FALSE)
              /\ ProcessExit
              /\ UNCHANGED <<state_file, export_file, nextId>>
           \* it returns (code, name)
           \/ LET source == chain[address] IN
              /\ IF has_no_code(source.code)
                 THEN /\ log' = Log("no_code", "none", "none", FALSE)
                      /\ UNCHANGED <<families, family_map, graph, last_save_time,
                                     state_file, export_file, pc, nextId, contract>>
                 ELSE
                 LET c == Contract(address, source.code, source.name)
                     r == compare(families, c, 1, <<>>)
                 IN  /\ contract' = c
                     /\ pc' = pc
                     /\ IF r.matched # 0
                        THEN \E so \in SaveOutcomes :
                               LET fams == [families EXCEPT ![r.matched] = add_contract(@, c)]
                                   s == check_save_state(fams, family_map, graph,
                                                         last_save_time, now, state_file, so)
                               IN  /\ (s.printed = "none" => so = "ok")
                                   /\ families' = fams
                                   /\ family_map' = s.family_map
                                   /\ graph' = graph
                                   /\ last_save_time' = s.last_save_time
                                   /\ state_file' = s.file
                                   /\ log' = Log("match", s.printed, "none", FALSE)
                                   /\ UNCHANGED <<export_file, nextId>>
                        ELSE \E so \in SaveOutcomes, eo \in ExportOutcomes :
                               LET family == ContractFamily(nextId, c)
                                   fams == Append(families, family)
                                   fmap == [id \in DOMAIN family_map \cup {family.id} |->
                                              IF id = family.id THEN Len(fams)
                                              ELSE family_map[id]]
                                   g == update_graph(graph, family.id, r.observations, 1)
                                   s == check_save_state(fams, fmap, g, last_save_time,
                                                         now, state_file, so)
                               IN  /\ (s.printed = "none" => so = "ok")
                                   /\ nextId' = nextId + 1
                                   /\ families' = fams
                                   /\ family_map' = s.family_map
                                   /\ graph' = g
                                   /\ last_save_time' = s.last_save_time
                                   /\ state_file' = s.file
                                   /\ export_file' = export_data(fams, g, export_file, eo)
                                   /\ log' = Log("new", s.printed, eo, FALSE)

\* main(): KeyboardInterrupt while blocked in r.brpop
keyboard_interrupt ==
    /\ pc = "running"
    /\ \E so \in SaveOutcomes :
         LET s == save_state(families, graph, state_file, so)
         IN  /\ state_file' = s.file
             /\ log' = Log("interrupt", s.printed, "none", FALSE)
    /\ ProcessExit
    /\ UNCHANGED <<now, export_file, nextId, events, oracle>>
    /\ UNCHANGED aux

\* __main__: ContractAnalysis(scanner) and then main(): load_state()
start ==
    /\ pc = "stopped"
    /\ LET l == load_state(<<>>, EmptyDict, EmptyDict, state_file)
       IN  /\ families' = l.families
           /\ family_map' = l.family_map
           /\ graph' = l.graph
           /\ log' = Log("start", "none", "none", l.result)
    /\ last_save_time' = now
    /\ pc' = "running"
    /\ contract' = NoContract
    /\ UNCHANGED <<now, state_file, export_file, nextId, events, oracle>>
    /\ UNCHANGED aux

\* the wall clock advances
tick ==
    /\ now + TickStep <= MaxTime
    /\ now' = now + TickStep
    /\ UNCHANGED <<families, family_map, graph, last_save_time, state_file, export_file,
                   pc, nextId, contract, log, events, oracle>>
    /\ UNCHANGED aux

\* no scanner call in progress; a listener that has not polled yet
NoBlock == 0 - 1
NoResponse == [http |-> "none", status |-> "none", result |-> "none"]
NoCall == [fn |-> "none", st |-> "idle", n |-> 0, resp |-> NoResponse, out |-> "none",
           err |-> "none", calls |-> 0]
NoListener == [head |-> 1, last_processed_block |-> NoBlock, first |-> NoBlock,
               pushed |-> {}, twice |-> {}]

\* copydetect.compare_files gives the similarity in each direction and code_similarity
\* takes the larger: the score does not depend on the order of the two codes, and
\* identical non-empty codes score 100. "foo" and "bar" are two sources that score 40
\* against each other; the score of "baz" against each of them is open
\* the first id the second engine draws: uuid4 gives it other ids, in another order
TwinId == 9

\* a second engine after construction
NoTwin == [families |-> <<>>, graph |-> EmptyDict, nextId |-> TwinId]

\* BUY_AMOUNTS = [0.0002] and Decimal('0.001'), in units of 0.0001 ETH
BaseBuy == 2
RaisedBuy == 10

\* HoneypotTimerFlowBaseUniswapV2.__init__: buy_amount = random.choice(BUY_AMOUNTS);
\* bought lists, per event that reached transact, the flag and the amount requested
NoFlow == [buy_amount |-> BaseBuy, handled |-> 0, bought |-> <<>>]

Oracles == {o \in [Codes \X Codes -> Scores] :
              /\ \A c \in Codes : o[<<c, c>>] = 100
              /\ \A c, d \in Codes : o[<<c, d>>] = o[<<d, c>>]
              /\ o[<<"foo", "bar">>] = 40}

Init ==
    /\ families = <<>>
    /\ family_map = EmptyDict
    /\ graph = EmptyDict
    /\ last_save_time = 0
    /\ now = 0
    /\ state_file = NoFile
    /\ export_file = NoExport
    /\ pc = "stopped"
    /\ nextId = 1
    /\ oracle \in Oracles
    /\ contract = NoContract
    /\ log = Log("init", "none", "none", FALSE)
    /\ events = 0
    /\ hpc = "brpop"
    /\ loc = NoLocals
    /\ reader = "none"
    /\ queue = <<>>
    /\ delivered = <<>>
    /\ scan = NoCall
    /\ listener = NoListener
    /\ twin = NoTwin
    /\ flow = NoFlow

Next ==
    \/ start
    \/ handle_event
    \/ keyboard_interrupt
    \/ tick

Spec == Init /\ [][Next]_vars

\* the same system with the one thing that is sure to go on: the wall clock advances
\* whatever the process does (check_save_state reads time.time(), line 196)
SpecTimed == Init /\ [][Next]_vars /\ WF_vars(tick)

(* ---------------------------------------------------------------------- *)
(* The same process, one action per statement of handle_event: a            *)
(* KeyboardInterrupt, an exception or a reader can fall between two of them *)
(* ---------------------------------------------------------------------- *)
StepEvents == 2         \* messages popped in the statement-level specifications

engine == <<families, family_map, graph, last_save_time>>
files == <<state_file, export_file>>

\* handle_event returns to the loop of main()
Return(op, save, export) ==
    /\ hpc' = "brpop"
    /\ loc' = NoLocals
    /\ log' = Log(op, save, export, FALSE)

\* line 176 with a slip: the observation is written to self.graph at once
record_observation_eager(observations, g, family_id, similarity) ==
    [observations |-> Append(observations, <<family_id, similarity>>),
     graph |-> SetItem2(g, family_id, family_id, similarity)]

\* handle_event, observations[family.id] = similarity: a local dict, not the graph
record_observation(observations, g, family_id, similarity) ==
    [observations |-> Append(observations, <<family_id, similarity>>),
     graph |-> g]

\* main(): r.brpop hands over message msg, json.loads, handle_event is entered
s_brpop(msg) ==
    /\ UNCHANGED ext
    /\ pc = "running"
    /\ hpc = "brpop"
    /\ events < StepEvents
    /\ events' = events + 1
    /\ hpc' = "find"
    /\ loc' = [NoLocals EXCEPT !.msg = msg.id, !.event = msg.event]
    /\ UNCHANGED <<engine, files, now, pc, nextId, oracle, contract, log, reader>>

\* handle_event, step 1: address = self.find_weth_token(event)
s_find ==
    /\ UNCHANGED ext
    /\ pc = "running"
    /\ hpc = "find"
    /\ LET address == find_weth_token(loc.event)
       IN  IF address = None
           THEN Return("no_weth", "none", "none")
           ELSE /\ hpc' = "scan"
                /\ loc' = [loc EXCEPT !.address = address]
                /\ log' = log
    /\ UNCHANGED <<engine, files, now, pc, nextId, oracle, contract, events, reader,
                   queue, delivered>>

\* handle_event, steps 2 and 3: the scanner call, the empty-code test, Contract(...)
s_scan ==
    /\ UNCHANGED ext
    /\ pc = "running"
    /\ hpc = "scan"
    /\ \/ /\ hpc' = "raised"
          /\ log' = Log("scanner_error", "none", "none", FALSE)
          /\ UNCHANGED <<loc, contract>>
       \/ LET source == chain[loc.address]
          IN  IF has_no_code(source.code)
              THEN Return("no_code", "none", "none") /\ contract' = contract
              ELSE /\ contract' = Contract(loc.address, source.code, source.name)
                   /\ hpc' = "compare"
                   /\ loc' = [loc EXCEPT !.i = 1]
                   /\ log' = log
    /\ UNCHANGED <<engine, files, now, pc, nextId, oracle, events, reader, queue, delivered>>

\* handle_event, one turn of the loop over self.families
s_compare ==
    /\ UNCHANGED ext
    /\ pc = "running"
    /\ hpc = "compare"
    /\ IF loc.i > Len(families)
       THEN /\ hpc' = "append"
            /\ UNCHANGED <<loc, log, graph>>
       ELSE \* copydetect raises inside code_similarity
            \/ /\ hpc' = "raised"
               /\ log' = Log("oracle_error", "none", "none", FALSE)
               /\ UNCHANGED <<loc, graph>>
            \/ LET r == is_similar(families[loc.i], contract)
                   o == record_observation(loc.observations, graph,
                                           families[loc.i].id, r[1])
               IN  IF r[2]
                   THEN /\ hpc' = "count"
                        /\ UNCHANGED <<loc, log, graph>>
                   ELSE /\ hpc' = "compare"
                        /\ loc' = [loc EXCEPT !.i = @ + 1, !.observations = o.observations]
                        /\ graph' = o.graph
                        /\ log' = log
    /\ UNCHANGED <<families, family_map, last_save_time, files, now, pc, nextId, oracle,
                   contract, events, reader, queue, delivered>>

\* ContractFamily.add_contract, statement by statement, on the family that matched
s_add_contract ==
    /\ UNCHANGED ext
    /\ pc = "running"
    /\ hpc \in {"count", "addresses", "names"}
    /\ CASE hpc = "count" ->
              /\ families' = [families EXCEPT ![loc.i].count = @ + 1]
              /\ hpc' = "addresses"
         [] hpc = "addresses" ->
              /\ families' = [families EXCEPT ![loc.i].addresses = Append(@, contract.address)]
              /\ hpc' = "names"
         [] OTHER ->
              /\ families' = [families EXCEPT ![loc.i].names = @ \cup {contract.name}]
              /\ hpc' = "check"
    /\ UNCHANGED <<family_map, graph, last_save_time, files, now, pc, nextId, oracle,
                   contract, log, events, loc, reader, queue, delivered>>

\* handle_event: family = ContractFamily(contract); self.families.append(family)
s_append ==
    /\ UNCHANGED ext
    /\ pc = "running"
    /\ hpc = "append"
    /\ families' = Append(families, ContractFamily(nextId, contract))
    /\ nextId' = nextId + 1
    /\ loc' = [loc EXCEPT !.fid = nextId]
    /\ hpc' = "index"
    /\ UNCHANGED <<family_map, graph, last_save_time, files, now, pc, oracle, contract,
                   log, events, reader, queue, delivered>>

\* handle_event: self.family_map[family.id] = family
s_index ==
    /\ UNCHANGED ext
    /\ pc = "running"
    /\ hpc = "index"
    /\ family_map' = [id \in DOMAIN family_map \cup {loc.fid} |->
                        IF id = loc.fid THEN Len(families) ELSE family_map[id]]
    /\ loc' = [loc EXCEPT !.k = 1]
    /\ hpc' = IF Len(loc.observations) = 0 THEN "check" ELSE "edge_out"
    /\ UNCHANGED <<families, graph, last_save_time, files, now, pc, nextId, oracle,
                   contract, log, events, reader, queue, delivered>>

\* handle_event, the loop over observations.items(): one of the two assignments
s_update_graph ==
    /\ UNCHANGED ext
    /\ pc = "running"
    /\ hpc \in {"edge_out", "edge_in"}
    /\ LET other_id == loc.observations[loc.k][1]
           similarity == loc.observations[loc.k][2]
       IN  IF hpc = "edge_out"
           THEN /\ graph' = SetItem2(graph, loc.fid, other_id, similarity)
                /\ hpc' = "edge_in"
                /\ loc' = loc
           ELSE /\ graph' = SetItem2(graph, other_id, loc.fid, similarity)
                /\ hpc' = IF loc.k = Len(loc.observations) THEN "check" ELSE "edge_out"
                /\ loc' = [loc EXCEPT !.k = @ + 1]
    /\ UNCHANGED <<families, family_map, last_save_time, files, now, pc, nextId, oracle,
                   contract, log, events, reader, queue, delivered>>

\* handle_event: self.check_save_state(), then return on the match path
s_check_save_state ==
    /\ UNCHANGED ext
    /\ pc = "running"
    /\ hpc = "check"
    /\ \E so \in SaveOutcomes :
         LET s == check_save_state(families, family_map, graph, last_save_time, now,
                                   state_file, so)
         IN  /\ (s.printed = "none" => so = "ok")
             /\ family_map' = s.family_map
             /\ last_save_time' = s.last_save_time
             /\ state_file' = s.file
             /\ IF loc.fid = 0
                THEN Return("match", s.printed, "none")
                ELSE /\ hpc' = "export"
                     /\ loc' = [loc EXCEPT !.save = s.printed]
                     /\ log' = log
    /\ UNCHANGED <<families, graph, export_file, now, pc, nextId, oracle, contract,
                   events, reader, queue, delivered>>

\* export_data: open(export_path, 'w') empties the file, json.dump then fills it
s_export_data ==
    /\ UNCHANGED ext
    /\ pc = "running"
    /\ hpc \in {"export", "export_write"}
    /\ IF hpc = "export"
       THEN /\ export_file' = PartialExport
            /\ hpc' = "export_write"
            /\ UNCHANGED <<loc, log>>
       ELSE \E eo \in ExportOutcomes :
              /\ export_file' = export_data(families, graph, export_file, eo)
              /\ Return("new", loc.save, eo)
    /\ UNCHANGED <<engine, state_file, now, pc, nextId, oracle, contract, events,
                   reader, queue, delivered>>

\* main(): KeyboardInterrupt between two statements of the loop, wherever it stands
s_keyboard_interrupt ==
    /\ UNCHANGED ext
    /\ pc = "running"
    /\ hpc # "raised"
    /\ \E so \in SaveOutcomes :
         LET s == save_state(families, graph, state_file, so)
         IN  /\ state_file' = s.file
             /\ log' = Log("interrupt", s.printed, "none", FALSE)
    /\ ProcessExit
    /\ hpc' = "brpop"
    /\ loc' = NoLocals
    /\ UNCHANGED <<now, export_file, nextId, events, oracle, reader, queue, delivered>>

\* an exception leaves handle_event and main(): nothing catches it, the process dies
s_crash ==
    /\ UNCHANGED ext
    /\ pc = "running"
    /\ hpc = "raised"
    /\ ProcessExit
    /\ hpc' = "brpop"
    /\ loc' = NoLocals
    /\ UNCHANGED <<files, now, nextId, events, oracle, log, reader, queue, delivered>>

step_brpop ==
    /\ \E event \in Events : s_brpop([id |-> 0, event |-> event])
    /\ UNCHANGED <<queue, delivered>>

NextSteps ==
    \/ start
    \/ tick
    \/ step_brpop
    \/ s_find
    \/ s_scan
    \/ s_compare
    \/ s_add_contract
    \/ s_append
    \/ s_index
    \/ s_update_graph
    \/ s_check_save_state
    \/ s_export_data
    \/ s_keyboard_interrupt
    \/ s_crash

SpecSteps == Init /\ [][NextSteps]_vars

(* ---------------------------------------------------------------------- *)
(* The dashboard (summary.py) reading the export while the engine runs      *)
(* ---------------------------------------------------------------------- *)
\* ContractAnalysisDashboard._load_json_data: no file, a document, or a json.load error
load_json_data(file) ==
    CASE file.kind = "none" -> "missing"
      [] file.kind = "ok" -> "loaded"
      [] OTHER -> "error"

\* the dashboard process calls _load_json_data at a moment of its own choosing
dashboard_load ==
    /\ UNCHANGED ext
    /\ reader' = load_json_data(export_file)
    /\ reader' # reader
    /\ UNCHANGED <<engine, files, now, pc, nextId, oracle, contract, log, events,
                   hpc, loc, queue, delivered>>

NextReader ==
    \/ NextSteps
    \/ dashboard_load

SpecReader == Init /\ [][NextReader]_vars

(* ---------------------------------------------------------------------- *)
(* The queue between the listener and the engine                            *)
(* ---------------------------------------------------------------------- *)
MaxMessages == 2        \* messages the listener pushes over the whole run

\* what the listener finds in PairCreated logs
QueueEvents == {[token0 |-> ETH, token1 |-> "0xA1"], [token0 |-> "0xA3", token1 |-> ETH],
                [token0 |-> "0xA1", token1 |-> "0xA2"]}

\* BRPOP with a slip: the tail is read and left on the list
brpop_peek(q) == [message |-> q[Len(q)], queue |-> q]

\* Redis BRPOP: the tail of the list, removed from it
brpop(q) == [message |-> q[Len(q)], queue |-> SubSeq(q, 1, Len(q) - 1)]

\* LPUSH with a slip: the message is added at the tail, where BRPOP reads
lpush_tail(q, m) == q \o <<m>>

\* Redis LPUSH: a new head
lpush(q, m) == <<m>> \o q

\* ids of the messages pushed so far
Pushed == {queue[i].id : i \in 1..Len(queue)} \cup {delivered[i] : i \in 1..Len(delivered)}

\* UniswapV2Listener.handle_event: self.r.lpush("NewToken", event_json)
listener_lpush ==
    /\ UNCHANGED ext
    /\ Cardinality(Pushed) < MaxMessages
    /\ \E event \in QueueEvents :
         queue' = lpush(queue, [id |-> Cardinality(Pushed) + 1, event |-> event])
    /\ UNCHANGED <<engine, files, now, pc, nextId, oracle, contract, log, events,
                   hpc, loc, reader, delivered>>

\* main(): r.brpop("NewToken") returns when the list is not empty
queue_brpop ==
    /\ Len(queue) > 0
    /\ LET p == brpop(queue)
       IN  /\ s_brpop(p.message)
           /\ queue' = p.queue
           /\ delivered' = Append(delivered, p.message.id)

NextQueue ==
    \/ start
    \/ listener_lpush
    \/ queue_brpop
    \/ s_find
    \/ s_scan
    \/ s_compare
    \/ s_add_contract
    \/ s_append
    \/ s_index
    \/ s_update_graph
    \/ s_check_save_state
    \/ s_export_data
    \/ s_crash

SpecQueue == Init /\ [][NextQueue]_vars

(* ---------------------------------------------------------------------- *)
(* Starting on a checkpoint that another version of the program left        *)
(* ---------------------------------------------------------------------- *)
\* ids given out by uuid4 before this run
StoredId == 1
StoredFamily1 == ContractFamily(StoredId, Contract("0xA1", "foo", "Tok"))
StoredFamily2 == ContractFamily(StoredId + 1, Contract("0xA3", "bar", "Tok"))
StoredLists == {<<>>, <<StoredFamily1>>, <<StoredFamily1, StoredFamily2>>}

\* the index stored with a family list: complete, absent or empty, that of a shorter
\* list, or one with the id of a family that is not in the list
StoredIndexes(fams) ==
    LET full == build_family_map(fams)
        shorter == IF Len(fams) = 0 THEN EmptyDict
                   ELSE build_family_map(SubSeq(fams, 1, Len(fams) - 1))
        longer == [id \in DOMAIN full \cup {StoredId + 2} |->
                     IF id \in DOMAIN full THEN full[id] ELSE 0]
    IN  {full, EmptyDict, shorter, longer}

StoredCheckpoints ==
    UNION {{[kind |-> "ok", families |-> fams, family_map |-> m,
             graph |-> IF Len(fams) < 2 THEN EmptyDict
                       ELSE update_graph(EmptyDict, fams[2].id, <<<<fams[1].id, 40>>>>, 1)] :
            m \in StoredIndexes(fams)} : fams \in StoredLists}

\* a stored checkpoint cut short: pickle.load raises before it returns anything
TruncatedCheckpoints == {[c EXCEPT !.kind = "partial"] : c \in StoredCheckpoints}

\* a stored checkpoint that unpickles to a dict whose 'graph' value is not a mapping:
\* graph_dict.items() raises after the families were assigned
MalformedCheckpoints ==
    {[c EXCEPT !.kind = "malformed", !.graph = EmptyDict] : c \in StoredCheckpoints}

InitLoad ==
    /\ families = <<>>
    /\ family_map = EmptyDict
    /\ graph = EmptyDict
    /\ last_save_time = 0
    /\ now = 0
    /\ nextId = StoredId + 3
    /\ state_file \in StoredCheckpoints \cup TruncatedCheckpoints \cup MalformedCheckpoints
                      \cup {NoFile, PartialFile}
    /\ export_file = NoExport
    /\ pc = "stopped"
    /\ oracle \in Oracles
    /\ contract = NoContract
    /\ log = Log("init", "none", "none", FALSE)
    /\ events = 0
    /\ hpc = "brpop"
    /\ loc = NoLocals
    /\ reader = "none"
    /\ queue = <<>>
    /\ delivered = <<>>
    /\ scan = NoCall
    /\ listener = NoListener
    /\ twin = NoTwin
    /\ flow = NoFlow

NextLoad ==
    \/ start
    \/ keyboard_interrupt
    \/ tick

SpecLoad == InitLoad /\ [][NextLoad]_vars

(* ---------------------------------------------------------------------- *)
(* ChainScanner and retryable_request_fixed_basescan                        *)
(* ---------------------------------------------------------------------- *)
MaxCalls == 2           \* scanner calls over the whole run
attempts == 3

RateLimit == "Max calls per sec rate limit reached (5/sec)"
NotVerified == "Contract source code not verified"

\* what requests.request can bring back: a failed request, or a JSON body with its
\* status and result ("verified" and "unverified" stand for a non-empty result list
\* with and without source code)
Responses ==
    {[http |-> "error", status |-> "none", result |-> "none"]}
      \cup {[http |-> "ok", status |-> "1", result |-> r] : r \in {"verified", "unverified", ""}}
      \cup {[http |-> "ok", status |-> "0", result |-> r] :
              r \in {RateLimit, NotVerified, "Invalid Address format", ""}}

\* _do_request of retryable_request_fixed: only the HTTP status is looked at
do_request_plain(resp) ==
    IF resp.http = "error" THEN "HTTPError" ELSE "ok"

\* retryable_request_fixed_basescan._do_request: the exception it raises, or "ok"
do_request(resp) ==
    IF resp.http = "error" THEN "HTTPError"
    ELSE IF resp.result = RateLimit THEN "Rate limit error"
    ELSE IF resp.status = "0" THEN "Request failed"
    ELSE "ok"

\* get_contract_source_code_and_name after the request returned: the code it returns,
\* or "raised"
source_code_and_name(data) ==
    IF data.result # ""
    THEN IF data.status = "0" THEN "failed"
         ELSE IF data.result = "verified" THEN "code" ELSE ""
    ELSE "raised"

\* get_contract_abi after the request returned
contract_abi(data) ==
    IF data.result # ""
    THEN IF data.status = "0"
         THEN IF data.result = NotVerified THEN "closed source" ELSE "failed"
         ELSE "abi"
    ELSE "raised"

\* a caller enters get_contract_source_code_and_name or get_contract_abi
scanner_call ==
    /\ scan.st \in {"idle", "done"}
    /\ scan.calls < MaxCalls
    /\ \E fn \in {"source", "abi"} :
         scan' = [NoCall EXCEPT !.fn = fn, !.st = "trying", !.calls = scan.calls + 1]
    /\ UNCHANGED <<engine, files, now, pc, nextId, oracle, contract, log, events,
                   hpc, loc, reader, queue, delivered, listener, twin, flow>>

\* one attempt of the tenacity loop: stop_after_attempt(attempts), reraise=True
scanner_request ==
    /\ scan.st = "trying"
    /\ \E resp \in Responses :
         LET r == do_request(resp)
             n == scan.n + 1
         IN  scan' = IF r = "ok"
                     THEN [scan EXCEPT !.n = n, !.resp = resp, !.st = "responded"]
                     ELSE IF n >= attempts
                     THEN [scan EXCEPT !.n = n, !.resp = resp, !.st = "done",
                                       !.out = "raised", !.err = r]
                     ELSE [scan EXCEPT !.n = n, !.resp = resp, !.err = r]
    /\ UNCHANGED <<engine, files, now, pc, nextId, oracle, contract, log, events,
                   hpc, loc, reader, queue, delivered, listener, twin, flow>>

\* the scanner method reads response.json() and returns or raises
scanner_return ==
    /\ scan.st = "responded"
    /\ LET out == IF scan.fn = "source" THEN source_code_and_name(scan.resp)
                  ELSE contract_abi(scan.resp)
       IN  scan' = [scan EXCEPT !.st = "done", !.out = out,
                                !.err = IF out = "raised"
                                        THEN "Request failed or empty result" ELSE "none"]
    /\ UNCHANGED <<engine, files, now, pc, nextId, oracle, contract, log, events,
                   hpc, loc, reader, queue, delivered, listener, twin, flow>>

NextScanner ==
    \/ scanner_call
    \/ scanner_request
    \/ scanner_return

SpecScanner == Init /\ [][NextScanner]_vars

(* ---------------------------------------------------------------------- *)
(* EventListener.log_loop                                                   *)
(* ---------------------------------------------------------------------- *)
MaxBlock == 4           \* the chain stops growing at this block number

\* fetch_events: the blocks whose logs get_logs returned, none when it raised
fetch_events(start_block, end_block, outcome) ==
    IF outcome = "ok" THEN start_block..end_block ELSE {}

\* a block is mined
new_block ==
    /\ listener.head < MaxBlock
    /\ listener' = [listener EXCEPT !.head = @ + 1]
    /\ UNCHANGED <<engine, files, now, pc, nextId, oracle, contract, log, events,
                   hpc, loc, reader, queue, delivered, scan, twin, flow>>

\* one turn of log_loop in which something is new: get_block_number, fetch_events,
\* handle_event for every event, last_processed_block = current_block. Either every
\* handle_event returns, or the one for the events of block k raises (json.dumps or
\* lpush): the blocks before k were pushed, and the except clause of line 88 leaves
\* last_processed_block as line 71 set it
log_loop ==
    /\ LET current_block == listener.head
           last == IF listener.last_processed_block = NoBlock THEN current_block - 1
                   ELSE listener.last_processed_block
       IN  /\ current_block > last
           /\ \/ \E outcome \in {"ok", "error"} :
                    LET fetched == fetch_events(last + 1, current_block, outcome)
                    IN  listener' = [listener EXCEPT
                               !.first = IF @ = NoBlock THEN last + 1 ELSE @,
                               !.pushed = @ \cup fetched,
                               !.twice = @ \cup (fetched \cap listener.pushed),
                               !.last_processed_block = current_block]
              \/ \E k \in (last + 1)..current_block :
                    LET handled == (last + 1)..(k - 1)
                    IN  listener' = [listener EXCEPT
                               !.first = IF @ = NoBlock THEN last + 1 ELSE @,
                               !.pushed = @ \cup handled,
                               !.twice = @ \cup (handled \cap listener.pushed),
                               !.last_processed_block = last]
    /\ UNCHANGED <<engine, files, now, pc, nextId, oracle, contract, log, events,
                   hpc, loc, reader, queue, delivered, scan, twin, flow>>

NextListener ==
    \/ new_block
    \/ log_loop

SpecListener == Init /\ [][NextListener]_vars

(* ---------------------------------------------------------------------- *)
(* Two engines fed the same contracts                                      *)
(* ---------------------------------------------------------------------- *)

\* handle_event from step 3 on, for an engine whose fields are fams and g and whose
\* next uuid4 is id: compare, then add_contract or a new family and its edges
ingest(fams, g, id, c) ==
    LET r == compare(fams, c, 1, <<>>)
    IN  IF r.matched # 0
        THEN [families |-> [fams EXCEPT ![r.matched] = add_contract(@, c)],
              graph |-> g, created |-> FALSE]
        ELSE LET family == ContractFamily(id, c)
             IN  [families |-> Append(fams, family),
                  graph |-> update_graph(g, family.id, r.observations, 1),
                  created |-> TRUE]

\* the contract records the scanner can give: an address with its code and name
Records == {Contract(a, chain[a].code, chain[a].name) :
              a \in {t \in Tokens : ~has_no_code(chain[t].code)}}

\* both engines handle the same contract record; the second draws its ids downwards
twin_handle_event ==
    /\ pc = "running"
    /\ events < MaxEvents
    /\ \E c \in Records :
         LET e == ingest(families, graph, nextId, c)
             t == ingest(twin.families, twin.graph, twin.nextId, c)
         IN  /\ families' = e.families
             /\ family_map' = build_family_map(e.families)
             /\ graph' = e.graph
             /\ nextId' = IF e.created THEN nextId + 1 ELSE nextId
             /\ twin' = [families |-> t.families, graph |-> t.graph,
                         nextId |-> IF t.created THEN twin.nextId - 1 ELSE twin.nextId]
             /\ contract' = c
             /\ log' = Log(IF e.created THEN "new" ELSE "match", "none", "none", FALSE)
    /\ events' = events + 1
    /\ UNCHANGED <<last_save_time, files, now, pc, oracle, hpc, loc, reader, queue,
                   delivered, scan, listener, flow>>

NextTwin ==
    \/ start
    \/ twin_handle_event

SpecTwin == Init /\ [][NextTwin]_vars

(* ---------------------------------------------------------------------- *)
(* The trading flow                                                        *)
(* ---------------------------------------------------------------------- *)

MaxFlowEvents == 3      \* events one flow instance handles

\* transact, the buy loop: what swap_tokens is asked to spend and what transact returns
\* when every later step succeeds
transact(buy_amount, swap) ==
    [amount_in_tokens |-> buy_amount,
     outcome |-> IF swap = "ok" THEN "Transaction complete" ELSE "Buy failed"]

\* HoneypotTimerFlowBaseUniswapV2.handle_event: one of the checks of lines 29-59 makes
\* it return, or code_similarity_check raises, or its flag is taken and transact runs
flow_handle_event ==
    /\ flow.handled < MaxFlowEvents
    /\ \E gate \in {"return", "pass"}, sim \in {"similar", "not_similar", "error"},
          swap \in {"ok", "failed"} :
         IF gate = "return" \/ sim = "error"
         THEN flow' = [flow EXCEPT !.handled = @ + 1]
         ELSE LET amount == IF sim = "similar" THEN RaisedBuy ELSE flow.buy_amount
                  t == transact(amount, swap)
              IN  flow' = [buy_amount |-> amount,
                           handled |-> flow.handled + 1,
                           bought |-> Append(flow.bought,
                                             [similar |-> sim = "similar",
                                              amount_in_tokens |-> t.amount_in_tokens,
                                              outcome |-> t.outcome])]
    /\ UNCHANGED <<engine, files, now, pc, nextId, oracle, contract, log, events,
                   hpc, loc, reader, queue, delivered, scan, listener, twin>>

NextFlow == flow_handle_event

SpecFlow == Init /\ [][NextFlow]_vars

(* ---------------------------------------------------------------------- *)
(* Properties                                                              *)
(* ---------------------------------------------------------------------- *)
Range(seq) == {seq[i] : i \in 1..Len(seq)}
Min(S) == CHOOSE x \in S : \A y \in S : x <= y
FamilyIds(fams) == {fams[i].id : i \in 1..Len(fams)}
GraphEntries(g) == {<<a, b>> \in (DOMAIN g) \X (UNION {DOMAIN g[k] : k \in DOMAIN g}) :
                      b \in DOMAIN g[a]}
\* the families whose representative code scores at least the threshold against c
MatchesAt(fams, c) ==
    {i \in 1..Len(fams) : code_similarity(fams[i].code, c.code) >= threshold}
\* this step is a handle_event that built a Contract and compared it
Ingested == events' # events /\ log'.op \in {"match", "new"}

\* C1: no address is a member of two different families, and the address of the
\* contract that was just assigned is a member of a family
C1_Exclusivity ==
    /\ \A i, j \in 1..Len(families) :
         i # j => Range(families[i].addresses) \cap Range(families[j].addresses) = {}
    /\ log.op \in {"match", "new"} =>
         \E i \in 1..Len(families) : contract.address \in Range(families[i].addresses)

\* an address was ingested twice and sits twice in one family, next to another family
C1_Witness ==
    /\ Len(families) >= 2
    /\ \E i \in 1..Len(families) :
         \E p, q \in 1..Len(families[i].addresses) :
            p # q /\ families[i].addresses[p] = families[i].addresses[q]

\* C2: when some family scores at least the threshold, the first such family in
\* creation order takes the contract: its count grows by one, every other family, the
\* number of families and the graph are unchanged
C2_FirstMatch ==
    [][(Ingested /\ MatchesAt(families, contract') # {}) =>
          LET k == Min(MatchesAt(families, contract'))
          IN  /\ log'.op = "match"
              /\ Len(families') = Len(families)
              /\ families'[k].count = families[k].count + 1
              /\ families'[k].addresses = Append(families[k].addresses, contract'.address)
              /\ \A j \in 1..Len(families) : j # k => families'[j] = families[j]
              /\ graph' = graph]_vars

\* a contract matched the first family although the second one scores 100 as well
C2_Witness ==
    /\ log.op = "match"
    /\ Len(families) >= 2
    /\ code_similarity(families[1].code, contract.code) >= threshold
    /\ code_similarity(families[2].code, contract.code) >= threshold
    /\ families[1].count >= 2
    /\ families[2].count = 1

\* C3: when no family matches, exactly one family (count 1, the contract's code and
\* address) is appended, the older families are unchanged, the graph holds the measured
\* score with every older family in both directions and is unchanged elsewhere
C3_NewFamily ==
    [][(Ingested /\ MatchesAt(families, contract') = {}) =>
          LET n == Len(families)
              G == families'[n + 1]
              old == FamilyIds(families)
              born == {<<G.id, id>> : id \in old} \cup {<<id, G.id>> : id \in old}
          IN  /\ log'.op = "new"
              /\ Len(families') = n + 1
              /\ \A i \in 1..n : families'[i] = families[i]
              /\ G.count = 1
              /\ G.code = contract'.code
              /\ G.addresses = <<contract'.address>>
              /\ G.id \notin old
              /\ GraphEntries(graph') = GraphEntries(graph) \cup born
              /\ \A i \in 1..n :
                   LET score == code_similarity(families[i].code, contract'.code)
                   IN  /\ graph'[G.id][families[i].id] = score
                       /\ graph'[families[i].id][G.id] = score
              /\ \A e \in GraphEntries(graph) : graph'[e[1]][e[2]] = graph[e[1]][e[2]]]_vars

\* a third family was born and compared against two older ones
C3_Witness ==
    /\ log.op = "new"
    /\ Len(families) = 3
    /\ Cardinality(GraphEntries(graph)) = 6

\* the representative code of every family id held in memory or in the checkpoint
CodeOf == {<<f.id, f.code>> : f \in Range(families) \cup Range(state_file.families)}

\* C4: the representative code that goes with a family id, in memory and in the
\* checkpoint, is the same before and after every step
C4_AnchorStable ==
    [][\A p \in CodeOf : \A q \in CodeOf' : p[1] = q[1] => p[2] = q[2]]_vars

\* a contract with another code than the representative one joined a family
C4_Witness ==
    /\ log.op = "match"
    /\ \E i \in 1..Len(families) :
         /\ families[i].count >= 2
         /\ families[i].addresses[families[i].count] = contract.address
         /\ families[i].code # contract.code

C6_Monotonic ==
    [][(pc = "running" /\ pc' = "running") =>
          /\ Len(families') >= Len(families)
          /\ \A i \in 1..Len(families) :
               /\ families'[i].id = families[i].id
               /\ families'[i].count >= families[i].count
               /\ Len(families'[i].addresses) >= Len(families[i].addresses)
               /\ Cardinality(families'[i].names) >= Cardinality(families[i].names)]_vars

\* a family with two names took a third contract
C6_Witness ==
    /\ log.op = "match"
    /\ \E i \in 1..Len(families) :
         families[i].count = 3 /\ Cardinality(families[i].names) = 2

C8_RoundTrip ==
    /\ pc = "running" =>
         LET file == save_state(families, graph, state_file, "ok").file
             l == load_state(<<>>, EmptyDict, EmptyDict, file)
         IN  /\ l.result
             /\ l.families = families
             /\ l.family_map = family_map
             /\ l.graph = graph
    /\ (log.op = "start" /\ log.loaded) =>
         /\ families = state_file.families
         /\ family_map = state_file.family_map
         /\ graph = state_file.graph

\* an engine restored from a checkpoint with several families, a grown family and edges
C8_Witness ==
    /\ log.op = "start"
    /\ log.loaded
    /\ Len(families) >= 2
    /\ \E i \in 1..Len(families) : families[i].count >= 2
    /\ GraphEntries(graph) # {}

\* C9: the checkpoint file is never half-written, and a complete checkpoint is never
\* replaced by anything but a complete checkpoint
C9_AllOrNothing ==
    [][/\ state_file'.kind # "partial"
       /\ state_file.kind = "ok" => state_file'.kind = "ok"]_vars

\* C10: a handle_event whose checkpoint failed leaves last_save_time unchanged
C10_BaselineOnSuccess ==
    [][(events' # events /\ log'.save \in {"open_error", "write_error"}) =>
          last_save_time' = last_save_time]_vars

\* the last handle_event was due for a checkpoint and its write failed: nothing has
\* been checkpointed since, so the last successful checkpoint is older than save_interval
CheckpointOverdue ==
    \/ now - last_save_time > save_interval
    \/ log.op \in {"match", "new"} /\ log.save \in {"open_error", "write_error"}

\* C11: a handle_event that assigned a contract writes a checkpoint, holding that
\* assignment, when more than save_interval has passed since the last successful
\* checkpoint, and writes none otherwise
C11_CheckpointWhenDue ==
    [][Ingested =>
          IF CheckpointOverdue
          THEN /\ log'.save # "none"
               /\ log'.save = "ok" => state_file' = pickle_state(families', graph')
          ELSE /\ log'.save = "none"
               /\ state_file' = state_file]_vars

\* C12: every handle_event that assigned a contract, to an old family or to a new one,
\* runs export_data, and a completed export shows the engine's families and graph
C12_ExportAfterIngest ==
    [][Ingested =>
          /\ log'.export # "none"
          /\ log'.export = "ok" =>
               /\ export_file'.families = [i \in 1..Len(families') |-> to_dict(families'[i])]
               /\ export_file'.graph = graph']_vars

\* what a restart would restore from the checkpoint file
Restorable(file) == load_state(<<>>, EmptyDict, EmptyDict, file)

\* C15: once a checkpoint has succeeded, a restart restores exactly the last successful
\* one: a step either completes a new checkpoint or leaves what load_state restores as
\* it was, and a start on that file gives the engine the file's families and graph
C15_RestoreLastCheckpoint ==
    [][state_file.kind = "ok" =>
          /\ Restorable(state_file').result
          /\ \/ Restorable(state_file') = Restorable(state_file)
             \/ state_file' = pickle_state(families', graph')
             \/ state_file' = pickle_state(families, graph)
          /\ (pc = "stopped" /\ pc' = "running") =>
               /\ families' = state_file.families
               /\ graph' = state_file.graph]_vars

\* C13: whenever the dashboard reads the export file it finds no file or one complete
\* document, never an empty or half-written one
C13_ReaderSeesComplete == reader # "error"

\* this step is the KeyboardInterrupt handler of main()
Interrupted == pc = "running" /\ pc' = "stopped" /\ log'.op = "interrupt"

C16_OracleErrorNoEffect ==
    [][/\ (hpc \in {"find", "scan", "compare"} /\ hpc' \in {"scan", "compare", "raised"}) =>
            UNCHANGED <<families, family_map, graph, last_save_time, state_file, export_file>>
       /\ (hpc = "raised" /\ hpc' # "raised") =>
            /\ pc' = "stopped"
            /\ UNCHANGED <<state_file, export_file>>]_vars

\* the oracle raised on a comparison against a family that is on file
C16_Witness ==
    /\ hpc = "raised"
    /\ log.op = "oracle_error"
    /\ loc.i = 1
    /\ Len(families) = 1
    /\ state_file.kind = "ok"
    /\ export_file.kind = "ok"

\* C17: find_weth_token gives the other side when exactly one side is the reference
\* token; with neither or both the event is dropped: handle_event returns before the
\* scanner call and changes nothing
C17_SubjectOrDiscard ==
    [][(hpc = "find" /\ hpc' # "find" /\ pc' = "running") =>
          LET e == loc.event
          IN  IF (e.token0 = ETH) # (e.token1 = ETH)
              THEN /\ hpc' = "scan"
                   /\ loc'.address = IF e.token0 = ETH THEN e.token1 ELSE e.token0
              ELSE /\ hpc' = "brpop"
                   /\ log'.op = "no_weth"
                   /\ UNCHANGED <<families, family_map, graph, last_save_time,
                                  state_file, export_file>>]_vars

\* C18: when the scanner returns empty code, handle_event returns at once: families,
\* index, graph, last_save_time, checkpoint file and export file are as before
C18_EmptyCodeNoEffect ==
    [][(hpc = "scan" /\ hpc' \notin {"scan", "raised"} /\ pc' = "running"
           /\ chain[loc.address].code = "") =>
          /\ hpc' = "brpop"
          /\ log'.op = "no_code"
          /\ UNCHANGED <<families, family_map, graph, last_save_time, state_file,
                         export_file, contract, nextId>>]_vars

\* an event without code was dropped by an engine that holds a family and has files
C18_Witness ==
    /\ log.op = "no_code"
    /\ hpc = "brpop"
    /\ pc = "running"
    /\ Len(families) = 1
    /\ state_file.kind = "ok"
    /\ export_file.kind = "ok"

\* C19: no message is handed to handle_event twice, and a message that was handed over
\* is no longer on the queue, crashes and restarts included
C19_AtMostOnce ==
    /\ \A i, j \in 1..Len(delivered) : i # j => delivered[i] # delivered[j]
    /\ \A i \in 1..Len(queue) : \A j \in 1..Len(delivered) : queue[i].id # delivered[j]
    /\ loc.msg # 0 => \A i \in 1..Len(queue) : queue[i].id # loc.msg

\* the process crashed with the first message in flight and has restarted with an empty
\* engine, the second message is waiting on the queue
C19_Witness ==
    /\ pc = "running"
    /\ log.op = "start"
    /\ delivered = <<1>>
    /\ Len(queue) = 1
    /\ families = <<>>

\* every event held by these families and this graph was applied to its end
Applied(fams, g) ==
    /\ \A i \in 1..Len(fams) :
         /\ fams[i].count = Len(fams[i].addresses)
         /\ Cardinality(fams[i].names) >= 1
    /\ \A i, j \in 1..Len(fams) :
         i # j => /\ fams[i].id \in DOMAIN g
                  /\ fams[j].id \in DOMAIN g[fams[i].id]

\* C20: a complete checkpoint and a complete export hold only events applied to their
\* end: every count equals the number of addresses and every two families are linked
\* in both directions
C20_NoPartialEvent ==
    /\ state_file.kind = "ok" => Applied(state_file.families, state_file.graph)
    /\ export_file.kind = "ok" =>
         Applied([i \in 1..Len(export_file.families) |-> from_dict(export_file.families[i])],
                 export_file.graph)

\* C24: a handle_event keeps every graph entry with its score; entries are added only
\* by the call that creates a family, and each new entry links that family to an
\* older one
C24_EdgeWrittenOnce ==
    [][(events' # events /\ pc' = "running") =>
          /\ \A e \in GraphEntries(graph) :
               /\ e \in GraphEntries(graph')
               /\ graph'[e[1]][e[2]] = graph[e[1]][e[2]]
          /\ GraphEntries(graph') # GraphEntries(graph) =>
               /\ log'.op = "new"
               /\ \A e \in GraphEntries(graph') \ GraphEntries(graph) :
                    LET G == families'[Len(families')].id
                    IN  /\ G \notin FamilyIds(families)
                        /\ \/ e[1] = G /\ e[2] \in FamilyIds(families)
                           \/ e[2] = G /\ e[1] \in FamilyIds(families)]_vars

\* a contract joined a family that has an edge to another family
C24_Witness ==
    /\ log.op = "match"
    /\ Len(families) = 2
    /\ Cardinality(GraphEntries(graph)) = 2
    /\ families[1].count + families[2].count = 3

\* C26: a start without a checkpoint file reports that nothing was loaded and leaves
\* the engine empty
C26_StartEmpty ==
    [][(pc = "stopped" /\ pc' = "running" /\ state_file.kind = "none") =>
          /\ ~log'.loaded
          /\ families' = <<>>
          /\ family_map' = EmptyDict
          /\ graph' = EmptyDict]_vars

\* the process restarted after a crash that left no checkpoint behind
C26_Witness ==
    /\ log.op = "start"
    /\ ~log.loaded
    /\ state_file.kind = "none"
    /\ events >= 1
    /\ export_file.kind = "ok"

\* C27: no two families share an id, and the family at each position keeps its id while
\* the engine runs
C27_IdsUniqueStable ==
    [][/\ \A i, j \in 1..Len(families') : i # j => families'[i].id # families'[j].id
       /\ (pc = "running" /\ pc' = "running") =>
            \A i \in 1..Len(families) : families'[i].id = families[i].id]_vars

\* a family restored from the checkpoint of a KeyboardInterrupt (no periodic checkpoint
\* is due at time 0) and a family created after the restart
C27_Witness ==
    /\ now = 0
    /\ log.op = "new"
    /\ state_file.kind = "ok"
    /\ Len(state_file.families) = 1
    /\ Len(families) = 2
    /\ families[1] = state_file.families[1]

C29_ExportConsistent ==
    [][(events' # events /\ log'.export = "ok") =>
          /\ Len(export_file'.families) = Len(families')
          /\ \A i \in 1..Len(families') :
               LET d == export_file'.families[i]
                   f == families'[i]
               IN  /\ d.id = f.id
                   /\ d.code = f.code
                   /\ d.count = f.count
                   /\ d.addresses = f.addresses
                   /\ Len(d.names) = Cardinality(f.names)
                   /\ Range(d.names) = f.names
          /\ export_file'.total_families = Len(families')
          /\ export_file'.total_contracts = SumCounts(families', 1)
          /\ export_file'.graph = graph']_vars

\* an export of two families, one of them with two contracts under two names
C29_Witness ==
    /\ log.op = "new"
    /\ log.export = "ok"
    /\ export_file.total_families = 2
    /\ export_file.total_contracts = 3
    /\ \E i \in 1..2 : Len(export_file.families[i].names) = 2
    /\ Cardinality(GraphEntries(export_file.graph)) = 2

\* C25: after a load_state that returned True the index has exactly the ids of the
\* loaded families, each leading to the family of that id
C25_IndexRebuilt ==
    [][(pc = "stopped" /\ pc' = "running" /\ log'.loaded) =>
          /\ DOMAIN family_map' = FamilyIds(families')
          /\ \A id \in DOMAIN family_map' :
               /\ family_map'[id] \in 1..Len(families')
               /\ families'[family_map'[id]].id = id]_vars

\* a scanner call ends in this step, and the explorer's last answer had status '0'
\* (with a result, and not the rate-limit answer)
EndsOnStatus0(fn) ==
    /\ scan.st # "done"
    /\ scan'.st = "done"
    /\ scan'.fn = fn
    /\ scan'.resp.http = "ok"
    /\ scan'.resp.status = "0"
    /\ scan'.resp.result \notin {RateLimit, ""}

\* C21: a source-code lookup that the explorer answers with status '0' returns the
\* code value "failed" and does not raise
C21_SourceFailed ==
    [][EndsOnStatus0("source") => scan'.out = "failed"]_vars

\* C22: an ABI lookup answered with status '0' returns "closed source" when the result
\* is "Contract source code not verified" and "failed" otherwise, and does not raise
C22_AbiClosedSource ==
    [][EndsOnStatus0("abi") =>
          scan'.out = IF scan'.resp.result = NotVerified THEN "closed source"
                      ELSE "failed"]_vars

C23_NoRangeSkipped ==
    listener.first # NoBlock =>
       \A b \in listener.first..listener.last_processed_block : b \in listener.pushed

C32_GraphIdsKnown ==
    \A e \in GraphEntries(graph) :
       /\ e[1] \in FamilyIds(families)
       /\ e[2] \in FamilyIds(families)
       /\ e[1] \in DOMAIN family_map
       /\ e[2] \in DOMAIN family_map
       /\ e[1] # e[2]

\* a third family was linked to two families that a restart had restored (at time 0
\* only the KeyboardInterrupt handler writes a checkpoint)
C32_Witness ==
    /\ now = 0
    /\ log.op = "new"
    /\ state_file.kind = "ok"
    /\ Len(state_file.families) = 2
    /\ Len(families) = 3
    /\ Cardinality(GraphEntries(graph)) = 6

\* C33: every score in the graph is below the match threshold
C33_ScoresBelowThreshold ==
    \A e \in GraphEntries(graph) : graph[e[1]][e[2]] < threshold

\* a contract joined a family of another code at score 100 while the graph has edges
C33_Witness ==
    /\ log.op = "match"
    /\ GraphEntries(graph) # {}
    /\ \E i \in 1..Len(families) :
         /\ contract.address = families[i].addresses[Len(families[i].addresses)]
         /\ contract.code # families[i].code

\* C34: after a start whose load_state returned False on an existing checkpoint file,
\* the engine holds no family, no index entry and no graph entry
C34_FailedLoadInstallsNothing ==
    (log.op = "start" /\ ~log.loaded /\ state_file.kind # "none") =>
        /\ families = <<>>
        /\ family_map = EmptyDict
        /\ graph = EmptyDict

\* C37: messages are handed to handle_event in the order they were pushed: the ids
\* handed over grow, the waiting ones were all pushed later, and the list holds them
\* newest first so that BRPOP takes the oldest
C37_Fifo ==
    /\ \A i, j \in 1..Len(delivered) : i < j => delivered[i] < delivered[j]
    /\ \A i \in 1..Len(queue) : \A j \in 1..Len(delivered) : queue[i].id > delivered[j]
    /\ \A i, j \in 1..Len(queue) : i < j => queue[i].id > queue[j].id

\* both messages were handed over, the first pushed first, and each created a family
C37_Witness ==
    /\ delivered = <<1, 2>>
    /\ hpc = "brpop"
    /\ Len(families) = 2
    /\ families[1].id < families[2].id

\* C38: over any run of log_loop, turns in which a fetch or a push raised included, no
\* block's events are pushed a second time and last_processed_block never goes back
C38_PublishedOnce ==
    [][/\ listener'.twice = {}
       /\ listener'.last_processed_block >= listener.last_processed_block]_vars

\* the engine holds assignments that the checkpoint on file does not hold
Unsaved == families # <<>> /\ state_file # pickle_state(families, graph)

\* C35: while the process runs and no write to the store fails, an engine state that is
\* not on file leads to a checkpoint that holds it, whether or not another event comes
C35_EventuallyCheckpointed ==
    [](log.save \notin {"open_error", "write_error"}) =>
        ((pc = "running" /\ Unsaved) ~> (pc = "stopped" \/ ~Unsaved))

\* C36: two engines started empty and fed the same contract records hold, whatever ids
\* uuid4 gave them, the same families in the same order with the same codes, members
\* and names, and the same scores between the families of the same positions
C36_Deterministic ==
    LET F == families
        T == twin.families
    IN  /\ Len(F) = Len(T)
        /\ \A i \in 1..Len(F) :
             /\ F[i].code = T[i].code
             /\ F[i].addresses = T[i].addresses
             /\ F[i].count = T[i].count
             /\ F[i].names = T[i].names
        /\ Cardinality(GraphEntries(graph)) = Cardinality(GraphEntries(twin.graph))
        /\ \A i, j \in 1..Len(F) :
             <<F[i].id, F[j].id>> \in GraphEntries(graph) =>
                /\ Len(T) >= i /\ Len(T) >= j
                /\ <<T[i].id, T[j].id>> \in GraphEntries(twin.graph)
                /\ graph[F[i].id][F[j].id] = twin.graph[T[i].id][T[j].id]

\* three contracts went through both engines: two families under different ids, one of
\* them with two members, and an edge between them
C36_Witness ==
    /\ events = 3
    /\ Len(families) = 2
    /\ Len(twin.families) = 2
    /\ families[1].id # twin.families[1].id
    /\ \E i \in 1..2 : families[i].count = 2
    /\ GraphEntries(twin.graph) # {}

\* C39: every event whose code was not flagged similar is bought with the base amount
C39_RaisedOnlyForTrigger ==
    \A i \in 1..Len(flow.bought) :
       ~flow.bought[i].similar => flow.bought[i].amount_in_tokens = BaseBuy

====
